---- MODULE Spec2Model ----
(***************************************************************************)
(* Model of pkg/util/kubernetes/apiserver/apiserver.go of the Datadog      *)
(* agent: the shared APIClient behind its retrier, the token stored in the  *)
(* ConfigMap "datadogtoken", and the metadata mapper with its cache.       *)
(*                                                                         *)
(* SpecToken : GetTokenFromConfigmap / UpdateTokenInConfigmap called by    *)
(*             several agent replicas against one remote ConfigMap.        *)
(* SpecConn  : successive GetAPIClient calls, each driving at most one     *)
(*             connect attempt through the retrier.                        *)
(* SpecConnRace : two goroutines making the first GetAPIClient calls at    *)
(*             the same time.                                              *)
(* SpecMapper : the poll cycles of StartMetadataMapping refreshing the     *)
(*             cache while time passes.                                    *)
(* SpecMapperCmd : the same, with the commands that read the cache.        *)
(***************************************************************************)
EXTENDS Integers, Sequences, FiniteSets, TLC

VARIABLES
    now,        \* time.Now().Unix(), in seconds since the epoch of the model
    cm,         \* the remote ConfigMap "datadogtoken" as the apiserver holds it
    upd,        \* per replica: the UpdateTokenInConfigmap call it is running
    calls,      \* UpdateTokenInConfigmap calls started so far, all replicas
    getRes,     \* the GetTokenFromConfigmap call that has just returned
    lastWrite,  \* per token: the pair written by the Update applied last
    useMetadataMapper,  \* config.Datadog.GetBool("use_metadata_mapper")
    globalAPIClient,    \* the shared *APIClient, nil until the first GetAPIClient
    nAlloc,     \* APIClient objects created so far
    nConnect,   \* connect attempts run so far
    nConnectOK, \* connect attempts that returned nil so far
    nProbe,     \* checkResourcesAuth runs so far
    handedOut,  \* the handles GetAPIClient has returned to callers
    probePassed,\* the handles whose checkResourcesAuth ran and returned nil
    lastCall,   \* the last GetAPIClient call: what it did and returned
    nGetClient, \* clients GetClient has built so far
    goroutine,  \* per concurrent caller of GetAPIClient: where it is in the call
    cache,      \* cache.Cache: per key the value set last and when it expires
    lastSet,    \* per node: the bundle processKubeServices set last, and when
    poll,       \* the goroutine of StartMetadataMapping: where it is in its cycle
    cmd,        \* the GetMetadataMapBundleOn... call that has just returned
    refresh,    \* the processKubeServices run that is inside its loop body
    reader      \* a consumer holding a bundle it got from getMetadataMapBundle

tokenVars == <<cm, upd, calls, getRes, lastWrite>>

connVars == <<useMetadataMapper, globalAPIClient, nAlloc, nConnect, nConnectOK, nProbe,
              handedOut, probePassed, lastCall, nGetClient, goroutine>>

mapperVars == <<cache, lastSet, poll, cmd>>

readerVars == <<refresh, reader>>

vars == <<now, cm, upd, calls, getRes, lastWrite, useMetadataMapper, globalAPIClient,
          nAlloc, nConnect, nConnectOK, nProbe, handedOut, probePassed, lastCall,
          nGetClient, goroutine, cache, lastSet, poll, cmd, refresh, reader>>

----------------------------------------------------------------------------
(* Bounds of the model *)

MaxNow == 150       \* the clock stops advancing here
MaxCalls == 2       \* UpdateTokenInConfigmap calls, all replicas together
MaxConnNow == 300   \* the clock of the connector stops advancing here
MaxConnects == 12   \* connect attempts, all APIClient objects together
MaxMapNow == 400    \* the clock of the metadata mapper stops advancing here
MaxTickerNow == 100 \* the clock of the overrunning poll loop stops advancing here
MaxNodeNow == 300   \* the clock of the node agents stops advancing here
MaxReaderNow == 300 \* the clock of the refresh and its reader stops advancing here

Replicas == {"r1", "r2"}
Tokens == {"event", "leader"}
Values == {"v1", "v2"}
TickSteps == {50}
MaxAges == {50, 60}
MapTickSteps == {100, 280}

----------------------------------------------------------------------------
(* Constants and errors of the package *)

tokenTime == "tokenTimestamp"
tokenKey == "tokenKey"

NoErr == "nil"
ErrNotFound == "entity not found"
ErrOutdated == "entity is outdated"
ErrFormat == "could not convert the timestamp"

\* errors the apiserver client returns
ErrRemote == "remote call failed"
ErrNoObject == "configmaps \"datadogtoken\" not found"
ErrConflict == "the object has been modified"

\* fmt.Sprintf("%s.%s", token, tokenKey) and fmt.Sprintf("%s.%s", token, tokenTime)
eventTokenKey(token) == token \o "." \o tokenKey
eventTokenTS(token) == token \o "." \o tokenTime

----------------------------------------------------------------------------
(* time.RFC822 = "02 Jan 06 15:04 MST": minute resolution, the seconds are  *)
(* not part of the string.  The table holds the strings of the first        *)
(* minutes of the model's epoch, for replicas whose local zone is UTC.      *)

RFC822 ==
    << "01 Jan 70 00:00 UTC", "01 Jan 70 00:01 UTC", "01 Jan 70 00:02 UTC",
       "01 Jan 70 00:03 UTC", "01 Jan 70 00:04 UTC", "01 Jan 70 00:05 UTC" >>

SecondsPerMinute == 60

\* now.Format(time.RFC822)
FormatRFC822(t) == RFC822[(t \div SecondsPerMinute) + 1]

\* time.Parse(time.RFC822, s): err != nil
ParseFails(s) == \A i \in DOMAIN RFC822 : RFC822[i] # s

\* time.Parse(time.RFC822, s).Unix()
ParseRFC822(s) ==
    LET i == CHOOSE i \in DOMAIN RFC822 : RFC822[i] = s
    IN  (i - 1) * SecondsPerMinute

----------------------------------------------------------------------------
(* ConfigMap.Data, a Go map[string]string.  A nil map reads like an empty   *)
(* one; assigning to an entry of a nil map panics.                          *)

EmptyMap == [k \in {} |-> ""]

\* m[k] = v
MapSet(m, k, v) == [x \in (DOMAIN m) \cup {k} |-> IF x = k THEN v ELSE m[x]]

\* the object a client holds after Get: the data and the metadata.resourceVersion
NoObject == [nilData |-> FALSE, Data |-> EmptyMap, ResourceVersion |-> 0]

\* c.client.ConfigMaps(namespace).Get(configMapDCAToken, ...): the error it returns.
\* reached = FALSE is a call the apiserver did not answer.
ConfigMapsGetErr(reached) ==
    IF ~reached THEN ErrRemote
    ELSE IF ~cm.exists THEN ErrNoObject
    ELSE NoErr

\* ... and the object it returns
ConfigMapsGet(reached) ==
    IF ConfigMapsGetErr(reached) = NoErr
    THEN [nilData |-> cm.nilData, Data |-> cm.Data, ResourceVersion |-> cm.ResourceVersion]
    ELSE NoObject

\* Variant: the apiserver applies an Update whatever the version it carries.
ConfigMapsUpdateErr_NoConflict(reached, obj) ==
    IF ~reached THEN ErrRemote
    ELSE IF ~cm.exists THEN ErrNoObject
    ELSE NoErr

\* c.client.ConfigMaps(namespace).Update(tokenConfigMap): the error it returns.
\* The object sent is the one read, so it carries the resourceVersion of the read
\* and the apiserver rejects it when the stored object has changed since.
ConfigMapsUpdateErr(reached, obj) ==
    IF ~reached THEN ErrRemote
    ELSE IF ~cm.exists THEN ErrNoObject
    ELSE IF obj.ResourceVersion # cm.ResourceVersion THEN ErrConflict
    ELSE NoErr

----------------------------------------------------------------------------
(* GetTokenFromConfigmap(token, tokenTimeout), lines 309-347, as a function *)
(* of what the Get returned and of time.Now().Unix().                       *)

\* the result of lines 335-346 for a timestamp that parses
FreshOrOutdated(tokenValue, tokenAge, tokenTimeout) ==
    IF tokenAge > tokenTimeout
    THEN [value |-> tokenValue, found |-> TRUE, err |-> ErrOutdated]
    ELSE [value |-> tokenValue, found |-> TRUE, err |-> NoErr]

\* Variant: the age test written >= (a token exactly tokenTimeout old is outdated).
GetTokenFromConfigmap_AgeGE(getErr, obj, token, tokenTimeout, t) ==
    IF getErr # NoErr \/ eventTokenKey(token) \notin DOMAIN obj.Data
    THEN [value |-> "", found |-> FALSE, err |-> ErrNotFound]
    ELSE IF eventTokenTS(token) \notin DOMAIN obj.Data
    THEN [value |-> obj.Data[eventTokenKey(token)], found |-> TRUE, err |-> ErrOutdated]
    ELSE IF ParseFails(obj.Data[eventTokenTS(token)])
    THEN [value |-> "", found |-> TRUE, err |-> ErrFormat]
    ELSE IF t - ParseRFC822(obj.Data[eventTokenTS(token)]) >= tokenTimeout
    THEN [value |-> obj.Data[eventTokenKey(token)], found |-> TRUE, err |-> ErrOutdated]
    ELSE [value |-> obj.Data[eventTokenKey(token)], found |-> TRUE, err |-> NoErr]

\* Variant: a token without timestamp is reported as not found.
GetTokenFromConfigmap_NoTsNotFound(getErr, obj, token, tokenTimeout, t) ==
    IF getErr # NoErr \/ eventTokenKey(token) \notin DOMAIN obj.Data
    THEN [value |-> "", found |-> FALSE, err |-> ErrNotFound]
    ELSE IF eventTokenTS(token) \notin DOMAIN obj.Data
    THEN [value |-> "", found |-> FALSE, err |-> ErrNotFound]
    ELSE IF ParseFails(obj.Data[eventTokenTS(token)])
    THEN [value |-> "", found |-> TRUE, err |-> ErrFormat]
    ELSE FreshOrOutdated(obj.Data[eventTokenKey(token)],
                         t - ParseRFC822(obj.Data[eventTokenTS(token)]), tokenTimeout)

\* Variant: the timestamp field is looked up before the token field.
GetTokenFromConfigmap_TsFirst(getErr, obj, token, tokenTimeout, t) ==
    IF getErr # NoErr
    THEN [value |-> "", found |-> FALSE, err |-> ErrNotFound]
    ELSE IF eventTokenTS(token) \notin DOMAIN obj.Data
    THEN IF eventTokenKey(token) \in DOMAIN obj.Data
         THEN [value |-> obj.Data[eventTokenKey(token)], found |-> TRUE, err |-> ErrOutdated]
         ELSE [value |-> "", found |-> FALSE, err |-> ErrNotFound]
    ELSE IF ParseFails(obj.Data[eventTokenTS(token)])
    THEN [value |-> "", found |-> TRUE, err |-> ErrFormat]
    ELSE IF eventTokenKey(token) \notin DOMAIN obj.Data
    THEN [value |-> "", found |-> FALSE, err |-> ErrOutdated]
    ELSE FreshOrOutdated(obj.Data[eventTokenKey(token)],
                         t - ParseRFC822(obj.Data[eventTokenTS(token)]), tokenTimeout)

GetTokenFromConfigmap(getErr, obj, token, tokenTimeout, t) ==
    IF getErr # NoErr
    THEN [value |-> "", found |-> FALSE, err |-> ErrNotFound]
    ELSE IF eventTokenKey(token) \notin DOMAIN obj.Data
    THEN [value |-> "", found |-> FALSE, err |-> ErrNotFound]
    ELSE LET tokenValue == obj.Data[eventTokenKey(token)] IN
         IF eventTokenTS(token) \notin DOMAIN obj.Data
         THEN [value |-> tokenValue, found |-> TRUE, err |-> ErrOutdated]
         ELSE LET tokenTimeStr == obj.Data[eventTokenTS(token)] IN
              IF ParseFails(tokenTimeStr)
              THEN [value |-> "", found |-> TRUE, err |-> ErrFormat]
              ELSE LET tokenAge == t - ParseRFC822(tokenTimeStr) IN
                   FreshOrOutdated(tokenValue, tokenAge, tokenTimeout)

NoGet ==
    [called |-> FALSE, token |-> "", tokenTimeout |-> 0, getErr |-> NoErr,
     value |-> "", found |-> FALSE, err |-> NoErr]

\* One GetTokenFromConfigmap call: a single remote read, then local computation.
\* getRes holds the call and what it returned until the system moves on.
GetToken(token, tokenTimeout, reached) ==
    LET getErr == ConfigMapsGetErr(reached)
        obj == ConfigMapsGet(reached)
        r == GetTokenFromConfigmap(getErr, obj, token, tokenTimeout, now)
    IN  /\ getRes' = [called |-> TRUE, token |-> token, tokenTimeout |-> tokenTimeout,
                      getErr |-> getErr,
                      value |-> r.value, found |-> r.found, err |-> r.err]
        /\ UNCHANGED <<now, cm, upd, calls, lastWrite>>
        /\ UNCHANGED connVars
        /\ UNCHANGED mapperVars
        /\ UNCHANGED readerVars

----------------------------------------------------------------------------
(* UpdateTokenInConfigmap(token, tokenValue), lines 351-371.  The call is   *)
(* split at its two remote calls, where other replicas interleave.          *)

\* Variant: only the token value is set.
UpdateTokenData_KeyOnly(Data, token, tokenValue, t) ==
    MapSet(Data, eventTokenKey(token), tokenValue)

\* Variant: a timestamp already stored is kept.
UpdateTokenData_KeepsTs(Data, token, tokenValue, t) ==
    IF eventTokenTS(token) \in DOMAIN Data
    THEN MapSet(Data, eventTokenKey(token), tokenValue)
    ELSE MapSet(MapSet(Data, eventTokenKey(token), tokenValue),
                eventTokenTS(token), FormatRFC822(t))

\* lines 358-363: both fields are set in the local copy of the object
UpdateTokenData(Data, token, tokenValue, t) ==
    MapSet(MapSet(Data, eventTokenKey(token), tokenValue),
           eventTokenTS(token), FormatRFC822(t))

\* lines 354-356: the error of the Get is returned as it is
GetFailureReturn(getErr) == getErr

\* Variant: the error of the Update is logged and dropped.
UpdateReturn_Swallowed(updErr) == NoErr

\* lines 366-370: the error of the Update is returned as it is, nil otherwise
UpdateReturn(updErr) == updErr

IdleCall ==
    [pc |-> "idle", token |-> "", tokenValue |-> "", at |-> 0,
     cmap |-> NoObject, nGet |-> 0, nUpdate |-> 0,
     getErr |-> NoErr, updErr |-> NoErr, err |-> NoErr]

\* a replica enters UpdateTokenInConfigmap
UpdCall(r, token, tokenValue) ==
    /\ upd[r].pc = "idle"
    /\ calls < MaxCalls
    /\ calls' = calls + 1
    /\ upd' = [upd EXCEPT ![r] =
                 [IdleCall EXCEPT !.pc = "get", !.token = token,
                                  !.tokenValue = tokenValue]]
    /\ getRes' = NoGet
    /\ UNCHANGED <<now, cm, lastWrite>>
    /\ UNCHANGED connVars
    /\ UNCHANGED mapperVars
    /\ UNCHANGED readerVars

\* line 353 and, when the read succeeds, lines 358-363
UpdGet(r, reached) ==
    /\ upd[r].pc = "get"
    /\ LET getErr == ConfigMapsGetErr(reached)
           obj == ConfigMapsGet(reached)
           u == [upd[r] EXCEPT !.nGet = @ + 1, !.getErr = getErr]
       IN  upd' = [upd EXCEPT ![r] =
             IF getErr # NoErr
             THEN [u EXCEPT !.pc = "idle", !.err = GetFailureReturn(getErr)]
             ELSE IF obj.nilData
             THEN \* line 359: assignment to entry in nil map
                  [u EXCEPT !.pc = "panicked", !.err = "panic"]
             ELSE [u EXCEPT !.pc = "update", !.at = now,
                            !.cmap = [obj EXCEPT !.Data =
                                UpdateTokenData(obj.Data, u.token, u.tokenValue, now)]]]
    /\ getRes' = NoGet
    /\ UNCHANGED <<now, cm, calls, lastWrite>>
    /\ UNCHANGED connVars
    /\ UNCHANGED mapperVars
    /\ UNCHANGED readerVars

\* line 365 to the return
UpdUpdate(r, reached) ==
    /\ upd[r].pc = "update"
    /\ LET updErr == ConfigMapsUpdateErr(reached, upd[r].cmap)
           u == [upd[r] EXCEPT !.nUpdate = @ + 1, !.updErr = updErr, !.pc = "idle",
                               !.err = UpdateReturn(updErr), !.cmap = NoObject]
       IN  /\ upd' = [upd EXCEPT ![r] = u]
           /\ IF updErr = NoErr
              THEN /\ cm' = [cm EXCEPT !.Data = upd[r].cmap.Data,
                                       !.ResourceVersion = @ + 1]
                   /\ lastWrite' = [lastWrite EXCEPT ![upd[r].token] =
                         [written |-> TRUE, by |-> r, value |-> upd[r].tokenValue,
                          ts |-> FormatRFC822(upd[r].at)]]
              ELSE UNCHANGED <<cm, lastWrite>>
    /\ getRes' = NoGet
    /\ UNCHANGED <<now, calls>>
    /\ UNCHANGED connVars
    /\ UNCHANGED mapperVars
    /\ UNCHANGED readerVars

\* time passes
Tick(d) ==
    /\ now + d <= MaxNow
    /\ now' = now + d
    /\ getRes' = NoGet
    /\ UNCHANGED <<cm, upd, calls, lastWrite>>
    /\ UNCHANGED connVars
    /\ UNCHANGED mapperVars
    /\ UNCHANGED readerVars

----------------------------------------------------------------------------
(* The shared APIClient and its retrier, lines 58-139 and 263-301.          *)

RetryCount == 10
RetryDelay == 30

\* the error of GetClient when no client configuration can be built
ErrGetClient == "can't create a config for the official client"

Probes == <<"event", "service", "pod", "node">>

\* fmt.Sprintf("<kind> collection: %q", err.Error()) of a probe that failed
ProbeMessage(p) == p \o " collection: forbidden"

RECURSIVE Join(_)
\* strings.Join(errorMessages, ", ")
Join(errorMessages) ==
    IF Len(errorMessages) = 0 THEN ""
    ELSE IF Len(errorMessages) = 1 THEN Head(errorMessages)
    ELSE Head(errorMessages) \o ", " \o Join(Tail(errorMessages))

aggregateCheckResourcesErrors(errorMessages) ==
    IF Len(errorMessages) = 0 THEN NoErr
    ELSE "check resources failed: " \o Join(errorMessages)

\* the message a probe appends: one when its List call fails, none otherwise
ProbeResult(p, failing) == IF p \in failing THEN <<ProbeMessage(p)>> ELSE <<>>

NoProbe == [failing |-> {}, executed |-> <<>>, errorMessages |-> <<>>]

\* Variant: the run ends when the Events List call fails.
checkResourcesRun_ShortCircuit(failing, useMapper) ==
    LET events == ProbeResult("event", failing) IN
    IF useMapper = FALSE \/ "event" \in failing
    THEN [failing |-> failing, executed |-> <<"event">>, errorMessages |-> events]
    ELSE [failing |-> failing,
          executed |-> <<"event", "service", "pod", "node">>,
          errorMessages |->
             events \o ProbeResult("service", failing) \o ProbeResult("pod", failing)
                    \o ProbeResult("node", failing)]

\* The body of checkResourcesAuth, lines 274-301, with `failing` the resource
\* kinds whose List call fails: the List calls it makes, in order, and the
\* errorMessages it has collected when it returns.
checkResourcesRun(failing, useMapper) ==
    LET events == ProbeResult("event", failing) IN
    IF useMapper = FALSE
    THEN [failing |-> failing, executed |-> <<"event">>, errorMessages |-> events]
    ELSE [failing |-> failing,
          executed |-> <<"event", "service", "pod", "node">>,
          errorMessages |->
             events \o ProbeResult("service", failing) \o ProbeResult("pod", failing)
                    \o ProbeResult("node", failing)]

\* checkResourcesAuth: the error it returns
checkResourcesAuth(failing, useMapper) ==
    aggregateCheckResourcesErrors(checkResourcesRun(failing, useMapper).errorMessages)

\* connect, lines 107-139, on an APIClient whose client field is set or not
\* (hasClient).  clientOK: GetClient succeeds; versionEmpty: APIversion.Empty();
\* failing: the probes that fail if checkResourcesAuth runs.
connect(hasClient, clientOK, versionEmpty, failing, useMapper) ==
    IF ~hasClient /\ ~clientOK
    THEN [client |-> FALSE, version |-> "none", probeRan |-> FALSE, probe |-> NoProbe,
          err |-> ErrGetClient]
    ELSE IF ~versionEmpty
    THEN \* line 120: if !APIversion.Empty() { ...; return nil }
         [client |-> TRUE, version |-> "non-empty", probeRan |-> FALSE, probe |-> NoProbe,
          err |-> NoErr]
    ELSE [client |-> TRUE, version |-> "empty", probeRan |-> TRUE,
          probe |-> checkResourcesRun(failing, useMapper),
          err |-> checkResourcesAuth(failing, useMapper)]

\* Variant: one attempt more.
initRetryConfig_OneMore ==
    [Name |-> "apiserver", Strategy |-> "RetryCount", RetryCount |-> RetryCount + 1,
     RetryDelay |-> RetryDelay]

\* the retry.Config of lines 64-70
initRetryConfig ==
    [Name |-> "apiserver", Strategy |-> "RetryCount", RetryCount |-> RetryCount,
     RetryDelay |-> RetryDelay]

\* Retrier.SetupRetrier(cfg): a retrier that has not tried yet
SetupRetrier(cfg) ==
    [cfg |-> cfg, status |-> "Idle", tryCount |-> 0, nextTry |-> 0, lastTryError |-> NoErr]

\* what Retrier.TriggerRetry does before calling the attempt method:
\* "attempt", or the error it returns without attempting
RetrierGate(r, t) ==
    IF r.status = "OK" THEN "no-op"
    ELSE IF r.status = "PermaFail" THEN "exhausted"
    ELSE IF r.status = "FailWillRetry" /\ t < r.nextTry THEN "too-early"
    ELSE "attempt"

\* the retrier after an attempt that returned err at time t
RetrierAfter(r, err, t) ==
    IF err = NoErr
    THEN [r EXCEPT !.status = "OK", !.lastTryError = NoErr]
    ELSE IF r.tryCount + 1 >= r.cfg.RetryCount
    THEN [r EXCEPT !.status = "PermaFail", !.tryCount = @ + 1, !.lastTryError = err]
    ELSE [r EXCEPT !.status = "FailWillRetry", !.tryCount = @ + 1,
                   !.lastTryError = err, !.nextTry = t + r.cfg.RetryDelay]

NilAPIClient ==
    [isNil |-> TRUE, id |-> 0, client |-> FALSE, initRetry |-> SetupRetrier(initRetryConfig)]

\* Variant: a new APIClient on every call.
SharedAPIClient_AlwaysNew(g, id) ==
    [isNil |-> FALSE, id |-> id, client |-> FALSE,
     initRetry |-> SetupRetrier(initRetryConfig)]

\* lines 59-71: the shared instance, created and set up when it is nil
SharedAPIClient(g, id) ==
    IF g.isNil
    THEN [isNil |-> FALSE, id |-> id, client |-> FALSE,
          initRetry |-> SetupRetrier(initRetryConfig)]
    ELSE g

NoCall ==
    [called |-> FALSE, handle |-> 0, err |-> NoErr, attempted |-> FALSE,
     version |-> "none", probeRan |-> FALSE, probe |-> NoProbe]

\* lines 72-77 on the APIClient g: initRetry.TriggerRetry(), the connect attempt
\* it may run, and what the call returns
TriggerRetry(g, clientOK, versionEmpty, failing) ==
    /\ LET gate == RetrierGate(g.initRetry, now)
           a == connect(g.client, clientOK, versionEmpty, failing, useMetadataMapper)
           tried == gate = "attempt"
           retry == IF tried THEN RetrierAfter(g.initRetry, a.err, now) ELSE g.initRetry
           err == IF gate = "no-op" THEN NoErr
                  ELSE IF tried THEN a.err
                  ELSE g.initRetry.lastTryError
       IN  /\ globalAPIClient' =
                 [g EXCEPT !.initRetry = retry,
                           !.client = IF tried THEN a.client ELSE g.client]
           /\ nAlloc' = IF g.id = nAlloc + 1 THEN nAlloc + 1 ELSE nAlloc
           /\ nConnect' = IF tried THEN nConnect + 1 ELSE nConnect
           /\ nConnectOK' = IF tried /\ a.err = NoErr THEN nConnectOK + 1 ELSE nConnectOK
           /\ nGetClient' = IF tried /\ ~g.client /\ a.client
                            THEN nGetClient + 1 ELSE nGetClient
           /\ nProbe' = IF tried /\ a.probeRan THEN nProbe + 1 ELSE nProbe
           /\ probePassed' = IF tried /\ a.probeRan /\ a.err = NoErr
                             THEN probePassed \cup {g.id} ELSE probePassed
           /\ handedOut' = IF err = NoErr THEN handedOut \cup {g.id} ELSE handedOut
           /\ lastCall' = [called |-> TRUE,
                           handle |-> IF err = NoErr THEN g.id ELSE 0,
                           err |-> err, attempted |-> tried,
                           version |-> IF tried THEN a.version ELSE "none",
                           probeRan |-> tried /\ a.probeRan,
                           probe |-> IF tried THEN a.probe ELSE NoProbe]

\* One GetAPIClient call, lines 58-78, TriggerRetry and the connect attempt it
\* may run included.
GetAPIClient(clientOK, versionEmpty, failing) ==
    /\ nConnect < MaxConnects
    /\ TriggerRetry(SharedAPIClient(globalAPIClient, nAlloc + 1),
                    clientOK, versionEmpty, failing)
    /\ UNCHANGED <<now, useMetadataMapper, goroutine>>
    /\ UNCHANGED tokenVars
    /\ UNCHANGED mapperVars
    /\ UNCHANGED readerVars

\* RetryDelay passes
ConnTick ==
    /\ now + RetryDelay <= MaxConnNow
    /\ now' = now + RetryDelay
    /\ UNCHANGED connVars
    /\ UNCHANGED tokenVars
    /\ UNCHANGED mapperVars
    /\ UNCHANGED readerVars

\* the goroutines that call GetAPIClient at the same time
Goroutines == {"g1", "g2"}

NotCalling == [pc |-> "idle", handle |-> 0, err |-> NoErr]

\* line 59 in goroutine g: the unguarded test globalAPIClient == nil
RaceCheckNil(g) ==
    /\ goroutine[g].pc = "idle"
    /\ goroutine' = [goroutine EXCEPT
                        ![g].pc = IF globalAPIClient.isNil THEN "setup" ELSE "trigger"]
    /\ UNCHANGED <<now, useMetadataMapper, globalAPIClient, nAlloc, nConnect, nConnectOK,
                   nProbe, handedOut, probePassed, lastCall, nGetClient>>
    /\ UNCHANGED tokenVars
    /\ UNCHANGED mapperVars
    /\ UNCHANGED readerVars

\* lines 60-70 in goroutine g, which found the shared instance nil at line 59:
\* a new APIClient is stored in globalAPIClient and its retrier set up
RaceSetup(g) ==
    /\ goroutine[g].pc = "setup"
    /\ globalAPIClient' = SharedAPIClient(NilAPIClient, nAlloc + 1)
    /\ nAlloc' = nAlloc + 1
    /\ goroutine' = [goroutine EXCEPT ![g].pc = "trigger"]
    /\ UNCHANGED <<now, useMetadataMapper, nConnect, nConnectOK, nProbe, handedOut,
                   probePassed, lastCall, nGetClient>>
    /\ UNCHANGED tokenVars
    /\ UNCHANGED mapperVars
    /\ UNCHANGED readerVars

\* lines 72-77 in goroutine g, on the instance globalAPIClient holds by then
RaceTrigger(g, clientOK, versionEmpty, failing) ==
    /\ goroutine[g].pc = "trigger"
    /\ TriggerRetry(globalAPIClient, clientOK, versionEmpty, failing)
    /\ goroutine' = [goroutine EXCEPT
                        ![g] = [pc |-> "done", handle |-> lastCall'.handle,
                                err |-> lastCall'.err]]
    /\ UNCHANGED <<now, useMetadataMapper>>
    /\ UNCHANGED tokenVars
    /\ UNCHANGED mapperVars
    /\ UNCHANGED readerVars

\* the probes that fail in an attempt: none, the first, one behind the first,
\* the first and the last, two in the middle, all four
ProbeFailures ==
    { {}, {"event"}, {"service"}, {"event", "node"}, {"service", "pod"},
      {"event", "service", "pod", "node"} }

----------------------------------------------------------------------------
(* The metadata mapper: the cache of one MetadataMapperBundle per node, the *)
(* poll cycle that refreshes it, and the commands that read it.             *)

metadataPollIntl == 20      \* seconds
metadataMapExpire == 300    \* seconds: 5 * time.Minute
metadataMapperCachePrefix == "KubernetesMetadataMapping"

NodeNames == {"n1", "n2", "n3"}
PodNames == {"p1", "p2"}

\* the address of each pod
PodIPs == [p \in PodNames |-> IF p = "p1" THEN "10.0.0.1" ELSE "10.0.0.2"]

\* a v1.Pod: its name, the node it is scheduled on, its address
Pod(name, nodeName) == [Name |-> name, NodeName |-> nodeName, PodIP |-> PodIPs[name]]

\* a v1.Endpoints object: its name and the addresses its subsets target
Endpoints(name, pods) == [Name |-> name, Addresses |-> { PodIPs[p] : p \in pods }]

\* What a List call of the client returns: an error, or a list whose Items is
\* nil, or a list whose Items holds the given objects (possibly none).
ListFailed == [err |-> ErrRemote, nilItems |-> TRUE, Items |-> <<>>]
ListNilItems == [err |-> NoErr, nilItems |-> TRUE, Items |-> <<>>]
ListOf(items) == [err |-> NoErr, nilItems |-> FALSE, Items |-> items]

\* how a List call ended, as the callers tell it apart
ListKind(l) ==
    IF l.err # NoErr THEN "err"
    ELSE IF l.nilItems THEN "nil"
    ELSE IF Len(l.Items) = 0 THEN "empty"
    ELSE "items"

\* the node lists, endpoint lists and pod lists the apiserver may return
NodeLists ==
    { ListFailed, ListNilItems, ListOf(<<>>),
      ListOf(<<"n1", "n2", "n3">>), ListOf(<<"n3", "n2", "n1">>) }

EndpointsLists ==
    { ListFailed, ListNilItems, ListOf(<<>>),
      ListOf(<<Endpoints("svc-a", {"p1"}), Endpoints("svc-b", {"p2"})>>),
      ListOf(<<Endpoints("svc-a", {"p1", "p2"}), Endpoints("svc-b", {"p2"})>>) }

PodLists ==
    { ListFailed, ListNilItems, ListOf(<<>>),
      ListOf(<<Pod("p1", "n1"), Pod("p2", "n1")>>),
      ListOf(<<Pod("p1", "n1"), Pod("p2", "n2")>>),
      ListOf(<<Pod("p2", "n2")>>) }

\* the nodes whose mapServices call fails in a run of processKubeServices
JoinFailures == { {}, {"n2"} }

ErrJoin == "could not map the services"

\* A *MetadataMapperBundle: nil, or the map PodNameToService
EmptyServices == [p \in {} |-> <<>>]
NilBundle == [isNil |-> TRUE, PodNameToService |-> EmptyServices]
newMetadataMapperBundle == [isNil |-> FALSE, PodNameToService |-> EmptyServices]

\* the names of the endpoint objects of the list that target the address ip,
\* in the order of the list
ServicesOf(ip, endpoints) ==
    LET sel == SelectSeq(endpoints, LAMBDA e : ip \in e.Addresses)
    IN  [i \in 1..Len(sel) |-> sel[i].Name]

\* the pod -> services map of node nodeName for a snapshot
ServicesOfNode(nodeName, pods, endpoints) ==
    LET mapped == { i \in 1..Len(pods) :
                      /\ pods[i].NodeName = nodeName
                      /\ Len(ServicesOf(pods[i].PodIP, endpoints)) > 0 }
    IN  [p \in { pods[i].Name : i \in mapped } |->
            LET i == CHOOSE j \in mapped : pods[j].Name = p
            IN  ServicesOf(pods[i].PodIP, endpoints)]

\* metaBundle.mapServices(nodeName, podList, endpointList): the error it returns
\* and the bundle afterwards.  fails: this call fails.
mapServices(metaBundle, nodeName, podList, endpointList, fails) ==
    IF fails
    THEN [err |-> ErrJoin, bundle |-> metaBundle]
    ELSE [err |-> NoErr,
          bundle |-> [metaBundle EXCEPT !.PodNameToService =
                         ServicesOfNode(nodeName, podList.Items, endpointList.Items)]]

\* cache.BuildAgentKey(prefix, name)
BuildAgentKey(prefix, name) == prefix \o ":" \o name

CacheKeys == { BuildAgentKey(metadataMapperCachePrefix, n) : n \in NodeNames }

NoEntry == [set |-> FALSE, value |-> NilBundle, expiresAt |-> 0]

\* cache.Cache.Get(key) at time t: (value, found)
CacheGet(c, key, t) ==
    IF c[key].set /\ t < c[key].expiresAt
    THEN [value |-> c[key].value, found |-> TRUE]
    ELSE [value |-> NilBundle, found |-> FALSE]

\* cache.Cache.Set(key, value, ttl) at time t
CacheSet(c, key, value, ttl, t) ==
    [c EXCEPT ![key] = [set |-> TRUE, value |-> value, expiresAt |-> t + ttl]]

\* Variant: the bundle is set as it was before mapServices ran.
processNode_SetsFound(c, nodeName, podList, endpointList, joinFails, t) ==
    LET nodeNameCacheKey == BuildAgentKey(metadataMapperCachePrefix, nodeName)
        got == CacheGet(c, nodeNameCacheKey, t)
        metaBundle == IF ~got.found THEN newMetadataMapperBundle ELSE got.value
        mapped == mapServices(metaBundle, nodeName, podList, endpointList,
                              nodeName \in joinFails)
    IN  IF mapped.err # NoErr
        THEN [cache |-> c, set |-> FALSE]
        ELSE [cache |-> CacheSet(c, nodeNameCacheKey, metaBundle, metadataMapExpire, t),
              set |-> TRUE]

\* Variant: the services found are appended to those the cached bundle holds.
processNode_Accumulates(c, nodeName, podList, endpointList, joinFails, t) ==
    LET nodeNameCacheKey == BuildAgentKey(metadataMapperCachePrefix, nodeName)
        got == CacheGet(c, nodeNameCacheKey, t)
        metaBundle == IF ~got.found THEN newMetadataMapperBundle ELSE got.value
        mapped == mapServices(metaBundle, nodeName, podList, endpointList,
                              nodeName \in joinFails)
        old == metaBundle.PodNameToService
        new == mapped.bundle.PodNameToService
        both == [p \in DOMAIN new |->
                    IF p \in DOMAIN old THEN old[p] \o new[p] ELSE new[p]]
    IN  IF mapped.err # NoErr
        THEN [cache |-> c, set |-> FALSE]
        ELSE [cache |-> CacheSet(c, nodeNameCacheKey,
                                 [mapped.bundle EXCEPT !.PodNameToService = both],
                                 metadataMapExpire, t),
              set |-> TRUE]

\* Variant: an entry that is found keeps the expiry it has.
processNode_KeepsExpiry(c, nodeName, podList, endpointList, joinFails, t) ==
    LET nodeNameCacheKey == BuildAgentKey(metadataMapperCachePrefix, nodeName)
        got == CacheGet(c, nodeNameCacheKey, t)
        metaBundle == IF ~got.found THEN newMetadataMapperBundle ELSE got.value
        mapped == mapServices(metaBundle, nodeName, podList, endpointList,
                              nodeName \in joinFails)
    IN  IF mapped.err # NoErr
        THEN [cache |-> c, set |-> FALSE]
        ELSE [cache |-> CacheSet(c, nodeNameCacheKey, mapped.bundle, metadataMapExpire,
                                 IF got.found
                                 THEN c[nodeNameCacheKey].expiresAt - metadataMapExpire
                                 ELSE t),
              set |-> TRUE]

\* One pass of the loop of processKubeServices, lines 231-246, for the node
\* nodeName at time t: the cache afterwards and whether the entry was set.
processNode(c, nodeName, podList, endpointList, joinFails, t) ==
    LET nodeNameCacheKey == BuildAgentKey(metadataMapperCachePrefix, nodeName)
        got == CacheGet(c, nodeNameCacheKey, t)
        metaBundle == IF ~got.found THEN newMetadataMapperBundle ELSE got.value
        mapped == mapServices(metaBundle, nodeName, podList, endpointList,
                              nodeName \in joinFails)
    IN  IF mapped.err # NoErr
        THEN [cache |-> c, set |-> FALSE]
        ELSE [cache |-> CacheSet(c, nodeNameCacheKey, mapped.bundle, metadataMapExpire, t),
              set |-> TRUE]

RECURSIVE processNodes_Abort(_, _, _, _, _, _)
\* Variant: the loop ends at the first node whose mapServices call fails.
processNodes_Abort(c, nodes, podList, endpointList, joinFails, t) ==
    IF Len(nodes) = 0 \/ Head(nodes) \in joinFails THEN [cache |-> c, set |-> {}]
    ELSE LET one == processNode(c, Head(nodes), podList, endpointList, joinFails, t)
             rest == processNodes_Abort(one.cache, Tail(nodes), podList, endpointList,
                                        joinFails, t)
         IN  [cache |-> rest.cache, set |-> rest.set \cup {Head(nodes)}]

RECURSIVE processNodes(_, _, _, _, _, _)
\* the loop of lines 231-246 over the nodes of the list, in its order: the
\* cache afterwards and the nodes whose entry was set
processNodes(c, nodes, podList, endpointList, joinFails, t) ==
    IF Len(nodes) = 0 THEN [cache |-> c, set |-> {}]
    ELSE LET one == processNode(c, Head(nodes), podList, endpointList, joinFails, t)
             rest == processNodes(one.cache, Tail(nodes), podList, endpointList,
                                  joinFails, t)
         IN  [cache |-> rest.cache,
              set |-> IF one.set THEN rest.set \cup {Head(nodes)} ELSE rest.set]

\* processKubeServices(nodeList, podList, endpointList), lines 228-247
processKubeServices(c, nodeList, podList, endpointList, joinFails, t) ==
    IF nodeList.nilItems \/ podList.nilItems \/ endpointList.nilItems
    THEN [cache |-> c, set |-> {}]
    ELSE processNodes(c, nodeList.Items, podList, endpointList, joinFails, t)

\* NodeMetadataMapping(nodeName, podList), lines 159-179, at time t.
\* endpointList: what the Endpoints List call returns.  The cache afterwards,
\* the nodes whose entry was set and the error returned.
NodeMetadataMapping(c, nodeName, podList, endpointList, joinFails, t) ==
    IF endpointList.err # NoErr
    THEN [cache |-> c, set |-> {}, err |-> endpointList.err]
    ELSE IF endpointList.nilItems
    THEN [cache |-> c, set |-> {}, err |-> NoErr]
    ELSE LET nodeList == ListOf(<<nodeName>>)
             done == processKubeServices(c, nodeList, podList, endpointList, joinFails, t)
         IN  [cache |-> done.cache, set |-> done.set, err |-> NoErr]

\* getMetadataMapBundle(nodeName), lines 427-434, at time t
getMetadataMapBundle(c, nodeName, t) ==
    LET nodeNameCacheKey == BuildAgentKey(metadataMapperCachePrefix, nodeName)
        got == CacheGet(c, nodeNameCacheKey, t)
    IN  IF ~got.found
        THEN [bundle |-> NilBundle,
              err |-> "the key " \o nodeNameCacheKey \o " was not found in the cache"]
        ELSE [bundle |-> got.value, err |-> NoErr]

\* getNodeList(), lines 436-449.  clientErr: what GetAPIClient returns;
\* nodes: what the Nodes List call returns.
getNodeList(clientErr, nodes) ==
    IF clientErr # NoErr THEN [Items |-> <<>>, err |-> clientErr]
    ELSE IF nodes.err # NoErr THEN [Items |-> <<>>, err |-> nodes.err]
    ELSE [Items |-> nodes.Items, err |-> NoErr]

NoBundles == [n \in {} |-> NilBundle]
NoStats == [Errors |-> "", Nodes |-> NoBundles, Warnings |-> <<>>]

RECURSIVE AllNodesLoop(_, _, _, _)
\* the loop of lines 396-406 over the nodes left, with the map and the
\* warnings collected so far (GetObjectMeta of a v1.Node is never nil)
AllNodesLoop(c, nodes, t, acc) ==
    IF Len(nodes) = 0 THEN acc
    ELSE LET name == Head(nodes)
             got == getMetadataMapBundle(c, name, t)
             warn == "Node " \o name \o " could not be added to the service map bundle: "
                         \o got.err
         IN  AllNodesLoop(c, Tail(nodes), t,
                 [acc EXCEPT !.Nodes = [n \in (DOMAIN acc.Nodes) \cup {name} |->
                                          IF n = name THEN got.bundle ELSE acc.Nodes[n]],
                             !.Warnings = IF got.err # NoErr THEN Append(@, warn) ELSE @])

\* Variant: the command fails when the bundle of a node is not in the cache.
GetMetadataMapBundleOnAllNodes_Aborts(c, t, clientErr, nodes) ==
    LET list == getNodeList(clientErr, nodes)
        all == AllNodesLoop(c, list.Items, t, NoStats)
    IN  IF list.err # NoErr
        THEN [stats |-> [NoStats EXCEPT !.Errors =
                            "Failed to get nodes from the API server: " \o list.err],
              err |-> list.err]
        ELSE IF Len(all.Warnings) > 0
        THEN [stats |-> [NoStats EXCEPT !.Warnings = <<Head(all.Warnings)>>],
              err |-> Head(all.Warnings)]
        ELSE [stats |-> all, err |-> NoErr]

\* GetMetadataMapBundleOnAllNodes(), lines 383-410, at time t: (stats, err)
GetMetadataMapBundleOnAllNodes(c, t, clientErr, nodes) ==
    LET list == getNodeList(clientErr, nodes) IN
    IF list.err # NoErr
    THEN [stats |-> [NoStats EXCEPT !.Errors =
                        "Failed to get nodes from the API server: " \o list.err],
          err |-> list.err]
    ELSE [stats |-> AllNodesLoop(c, list.Items, t, NoStats), err |-> NoErr]

\* GetMetadataMapBundleOnNode(nodeName), lines 413-425, at time t: (stats, err)
GetMetadataMapBundleOnNode(c, t, nodeName) ==
    LET got == getMetadataMapBundle(c, nodeName, t) IN
    IF got.err # NoErr
    THEN [stats |-> [NoStats EXCEPT !.Warnings =
                        <<"Node " \o nodeName
                            \o " could not be added to the metadata map bundle: "
                            \o got.err>>],
          err |-> got.err]
    ELSE [stats |-> [NoStats EXCEPT !.Nodes = [n \in {nodeName} |-> got.bundle]],
          err |-> NoErr]

NoCmd ==
    [called |-> "none", clientErr |-> NoErr, nodes |-> ListNilItems, nodeName |-> "",
     podList |-> ListNilItems, endpointList |-> ListNilItems,
     stats |-> NoStats, err |-> NoErr]

\* time.NewTicker, line 252: the channel of a Ticker has a buffer of one tick
TickerBuffer == 1

\* Variant: the ticker queues every tick it cannot deliver.
TickerSend_Queues(n) == n + 1

\* the ticker sends a tick on its channel, which holds n: the send does not
\* block, a tick that finds the buffer full is dropped
TickerSend(n) == IF n < TickerBuffer THEN n + 1 ELSE n

\* The poll goroutine: where it is, how many ticks wait in the channel of
\* the ticker, the lists the cycle has fetched, the calls it has made with
\* their outcome, what ClusterMetadataMapping returned, the nodes whose
\* mapServices call failed, and the ticks that fired since the running cycle
\* started.  The record of a cycle is kept until the next tick.
NoPoll ==
    [pc |-> "wait", tick |-> 0, nodeList |-> ListNilItems,
     endpointList |-> ListNilItems, podList |-> ListNilItems, fetched |-> <<>>,
     ret |-> "none", failed |-> {}, overrun |-> 0]

NotSet == [written |-> FALSE, at |-> 0, bundle |-> NilBundle]

\* The ticker of StartMetadataMapping fires, lines 252-256: d seconds, a
\* multiple of metadataPollIntl, pass and a tick waits in the channel.  The
\* clock does not step within a cycle: its three List calls are bounded by
\* globalTimeoutSeconds each, far less than a step.
MapTick(d) ==
    /\ now + d <= MaxMapNow
    /\ poll.pc = "wait"
    /\ now' = now + d
    /\ poll' = [NoPoll EXCEPT !.tick = TickerSend(poll.tick)]
    /\ cmd' = NoCmd
    /\ UNCHANGED <<cache, lastSet>>
    /\ UNCHANGED tokenVars
    /\ UNCHANGED connVars
    /\ UNCHANGED readerVars

\* the poll goroutine after a List call of its cycle that returned l
\* The ticker fires while the goroutine is anywhere, lines 252-258: the loop
\* is one goroutine that calls ClusterMetadataMapping synchronously, so a tick
\* that fires during a cycle waits in the channel, or is dropped when one
\* waits already, and is received only when the call has returned.
TickerFires ==
    /\ now + metadataPollIntl <= MaxTickerNow
    /\ now' = now + metadataPollIntl
    /\ poll' = IF poll.pc = "wait"
               THEN [NoPoll EXCEPT !.tick = TickerSend(poll.tick)]
               ELSE [poll EXCEPT !.tick = TickerSend(@), !.overrun = @ + 1]
    /\ cmd' = NoCmd
    /\ UNCHANGED <<cache, lastSet>>
    /\ UNCHANGED tokenVars
    /\ UNCHANGED connVars
    /\ UNCHANGED readerVars

AfterFetch(call, l, next) ==
    LET fetched == Append(IF call = "nodes" THEN <<>> ELSE poll.fetched,
                          [call |-> call, kind |-> ListKind(l)])
        tick == IF call = "nodes" THEN poll.tick - 1 ELSE poll.tick
    IN  IF l.err # NoErr
        THEN [NoPoll EXCEPT !.tick = tick, !.fetched = fetched, !.ret = l.err]
        ELSE IF l.nilItems
        THEN [NoPoll EXCEPT !.tick = tick, !.fetched = fetched, !.ret = NoErr]
        ELSE [poll EXCEPT !.pc = next, !.tick = tick, !.fetched = fetched,
                          !.ret = "none"]

\* The poll goroutine takes the tick and ClusterMetadataMapping lists the
\* nodes, lines 255-256 and 193-201.
PollNodes(l) ==
    /\ poll.pc = "wait"
    /\ poll.tick > 0
    /\ poll' = [AfterFetch("nodes", l, "endpoints") EXCEPT
                   !.nodeList = IF ListKind(l) \in {"err", "nil"} THEN ListNilItems ELSE l]
    /\ cmd' = NoCmd
    /\ UNCHANGED <<now, cache, lastSet>>
    /\ UNCHANGED tokenVars
    /\ UNCHANGED connVars
    /\ UNCHANGED readerVars

\* ClusterMetadataMapping lists the endpoints, lines 203-211.
PollEndpoints(l) ==
    /\ poll.pc = "endpoints"
    /\ poll' = [AfterFetch("endpoints", l, "pods") EXCEPT
                   !.endpointList = IF ListKind(l) \in {"err", "nil"} THEN ListNilItems
                                    ELSE l]
    /\ cmd' = NoCmd
    /\ UNCHANGED <<now, cache, lastSet>>
    /\ UNCHANGED tokenVars
    /\ UNCHANGED connVars
    /\ UNCHANGED readerVars

\* ClusterMetadataMapping lists the pods and, with the three lists, calls
\* processKubeServices, lines 213-224.
PollPods(l, joinFails) ==
    /\ poll.pc = "pods"
    /\ LET after == AfterFetch("pods", l, "join")
           done == processKubeServices(cache, poll.nodeList, l, poll.endpointList,
                                       joinFails, now)
       IN  IF after.pc # "join"
           THEN /\ poll' = after
                /\ UNCHANGED <<cache, lastSet>>
           ELSE /\ poll' = [poll EXCEPT
                              !.pc = "wait",
                              !.podList = l,
                              !.fetched = Append(after.fetched,
                                                 [call |-> "join", kind |-> "items"]),
                              !.ret = NoErr,
                              !.overrun = 0,
                              !.failed = { n \in joinFails :
                                             \E i \in 1..Len(poll.nodeList.Items) :
                                                poll.nodeList.Items[i] = n }]
                /\ cache' = done.cache
                /\ lastSet' =
                     [n \in NodeNames |->
                        IF n \in done.set
                        THEN [written |-> TRUE, at |-> now,
                              bundle |-> done.cache[BuildAgentKey(
                                            metadataMapperCachePrefix, n)].value]
                        ELSE lastSet[n]]
    /\ cmd' = NoCmd
    /\ UNCHANGED now
    /\ UNCHANGED tokenVars
    /\ UNCHANGED connVars
    /\ UNCHANGED readerVars

\* the svcmap command: GetMetadataMapBundleOnAllNodes
CmdAllNodes(clientErr, nodes) ==
    /\ LET r == GetMetadataMapBundleOnAllNodes(cache, now, clientErr, nodes)
       IN  cmd' = [NoCmd EXCEPT !.called = "all", !.clientErr = clientErr,
                                !.nodes = nodes, !.stats = r.stats, !.err = r.err]
    /\ UNCHANGED <<now, cache, lastSet, poll>>
    /\ UNCHANGED tokenVars
    /\ UNCHANGED connVars
    /\ UNCHANGED readerVars

\* the metamap command: GetMetadataMapBundleOnNode(nodeName)
CmdOnNode(nodeName) ==
    /\ LET r == GetMetadataMapBundleOnNode(cache, now, nodeName)
       IN  cmd' = [NoCmd EXCEPT !.called = "node", !.nodeName = nodeName,
                                !.stats = r.stats, !.err = r.err]
    /\ UNCHANGED <<now, cache, lastSet, poll>>
    /\ UNCHANGED tokenVars
    /\ UNCHANGED connVars
    /\ UNCHANGED readerVars

\* the pod lists the callers of NodeMetadataMapping supply, the nodes they
\* run on and what their Endpoints List call returns
SuppliedPodLists ==
    { ListNilItems, ListOf(<<>>),
      ListOf(<<Pod("p1", "n1"), Pod("p2", "n1")>>),
      ListOf(<<Pod("p1", "n1"), Pod("p2", "n2")>>) }
AgentNodes == {"n1", "n2"}
AgentEndpointsLists ==
    { ListFailed, ListNilItems, ListOf(<<>>),
      ListOf(<<Endpoints("svc-a", {"p1"}), Endpoints("svc-b", {"p2"})>>) }

\* The node agent maps its own node: NodeMetadataMapping(nodeName, podList)
MapNode(nodeName, podList, endpointList, joinFails) ==
    /\ LET r == NodeMetadataMapping(cache, nodeName, podList, endpointList, joinFails, now)
       IN  /\ cache' = r.cache
           /\ lastSet' =
                [n \in NodeNames |->
                   IF n \in r.set
                   THEN [written |-> TRUE, at |-> now,
                         bundle |-> r.cache[BuildAgentKey(
                                       metadataMapperCachePrefix, n)].value]
                   ELSE lastSet[n]]
           /\ cmd' = [NoCmd EXCEPT !.called = "mapping", !.nodeName = nodeName,
                                   !.podList = podList, !.endpointList = endpointList,
                                   !.err = r.err]
    /\ UNCHANGED <<now, poll>>
    /\ UNCHANGED tokenVars
    /\ UNCHANGED connVars
    /\ UNCHANGED readerVars

\* time passes for the node agent, which runs no poll loop
MapClock(d) ==
    /\ now + d <= MaxNodeNow
    /\ now' = now + d
    /\ cmd' = NoCmd
    /\ UNCHANGED <<cache, lastSet, poll>>
    /\ UNCHANGED tokenVars
    /\ UNCHANGED connVars
    /\ UNCHANGED readerVars

----------------------------------------------------------------------------
(* The loop body of processKubeServices, lines 233-245, at the grain a       *)
(* concurrent reader sees.  cache.Cache.Get returns the *MetadataMapperBundle *)
(* the cache holds, mapServices writes into that object, and                 *)
(* getMetadataMapBundle, lines 427-434, hands the same pointer to its        *)
(* callers, who read its PodNameToService field without any lock of the      *)
(* bundle: the writes of mapServices and the reads of a consumer are not     *)
(* ordered.  mapServices fills the map one pod at a time.                    *)

NoRefresh ==
    [pc |-> "idle", nodeName |-> "", found |-> FALSE, work |-> NilBundle,
     before |-> EmptyServices, target |-> EmptyServices]

NoReader ==
    [holds |-> FALSE, nodeName |-> "", attached |-> FALSE, bundle |-> NilBundle,
     read |-> FALSE, seen |-> EmptyServices,
     before |-> EmptyServices, after |-> EmptyServices]

\* the snapshots a refresh works on
RefreshPodLists == SuppliedPodLists \ {ListNilItems}
RefreshEndpointsLists == { l \in EndpointsLists : ListKind(l) = "items" }

\* the pod names whose entry in the map m differs from the entry in target
PendingPods(m, target) ==
    { p \in (DOMAIN m) \cup (DOMAIN target) :
        ~(p \in DOMAIN m /\ p \in DOMAIN target /\ m[p] = target[p]) }

\* one write of mapServices into the map: the entry of pod p becomes that of target
WriteEntry(m, target, p) ==
    IF p \in DOMAIN target
    THEN [x \in (DOMAIN m) \cup {p} |-> IF x = p THEN target[p] ELSE m[x]]
    ELSE [x \in (DOMAIN m) \ {p} |-> m[x]]

\* the bundle the running refresh writes into: the object of the cache when Get
\* found it, a new object otherwise
RefreshBundle ==
    IF refresh.found
    THEN cache[BuildAgentKey(metadataMapperCachePrefix, refresh.nodeName)].value
    ELSE refresh.work

\* what the reader's pointer refers to
ReaderBundle ==
    IF reader.attached
    THEN cache[BuildAgentKey(metadataMapperCachePrefix, reader.nodeName)].value
    ELSE reader.bundle

\* lines 233-240: Get, newMetadataMapperBundle when not found, and the call of
\* mapServices, which fails at once or starts writing
RefreshBegin(nodeName, podList, endpointList, fails) ==
    /\ refresh.pc = "idle"
    /\ LET nodeNameCacheKey == BuildAgentKey(metadataMapperCachePrefix, nodeName)
           got == CacheGet(cache, nodeNameCacheKey, now)
           metaBundle == IF ~got.found THEN newMetadataMapperBundle ELSE got.value
           mapped == mapServices(metaBundle, nodeName, podList, endpointList, fails)
       IN  refresh' = IF mapped.err # NoErr
                      THEN NoRefresh
                      ELSE [pc |-> "writing", nodeName |-> nodeName,
                            found |-> got.found, work |-> metaBundle,
                            before |-> metaBundle.PodNameToService,
                            target |-> mapped.bundle.PodNameToService]
    /\ UNCHANGED <<now, cache, lastSet, poll, cmd, reader>>
    /\ UNCHANGED tokenVars
    /\ UNCHANGED connVars

\* mapServices writes the entry of one pod
RefreshWrite(p) ==
    /\ refresh.pc = "writing"
    /\ p \in PendingPods(RefreshBundle.PodNameToService, refresh.target)
    /\ LET written == [RefreshBundle EXCEPT !.PodNameToService =
                          WriteEntry(@, refresh.target, p)]
           nodeNameCacheKey == BuildAgentKey(metadataMapperCachePrefix, refresh.nodeName)
       IN  IF refresh.found
           THEN /\ cache' = [cache EXCEPT ![nodeNameCacheKey].value = written]
                /\ UNCHANGED refresh
           ELSE /\ refresh' = [refresh EXCEPT !.work = written]
                /\ UNCHANGED cache
    /\ UNCHANGED <<now, lastSet, poll, cmd, reader>>
    /\ UNCHANGED tokenVars
    /\ UNCHANGED connVars

\* mapServices has returned nil; line 245: cache.Cache.Set with the bundle.  A
\* reader that holds the object the entry held before a new one is set keeps
\* that object.
RefreshSet ==
    /\ refresh.pc = "writing"
    /\ PendingPods(RefreshBundle.PodNameToService, refresh.target) = {}
    /\ LET nodeNameCacheKey == BuildAgentKey(metadataMapperCachePrefix, refresh.nodeName)
       IN  /\ cache' = CacheSet(cache, nodeNameCacheKey, RefreshBundle,
                                metadataMapExpire, now)
           /\ lastSet' = [lastSet EXCEPT ![refresh.nodeName] =
                            [written |-> TRUE, at |-> now, bundle |-> RefreshBundle]]
           /\ reader' = IF reader.attached /\ reader.nodeName = refresh.nodeName
                           /\ ~refresh.found
                        THEN [reader EXCEPT !.attached = FALSE,
                                            !.bundle = cache[nodeNameCacheKey].value]
                        ELSE reader
    /\ refresh' = NoRefresh
    /\ UNCHANGED <<now, poll, cmd>>
    /\ UNCHANGED tokenVars
    /\ UNCHANGED connVars

\* a consumer obtains the bundle of a node: getMetadataMapBundle, lines 427-434
ReaderGet(nodeName) ==
    /\ LET r == getMetadataMapBundle(cache, nodeName, now)
       IN  reader' = IF r.err # NoErr
                     THEN NoReader
                     ELSE [NoReader EXCEPT !.holds = TRUE, !.nodeName = nodeName,
                                           !.attached = TRUE]
    /\ UNCHANGED <<now, cache, lastSet, poll, cmd, refresh>>
    /\ UNCHANGED tokenVars
    /\ UNCHANGED connVars

\* the consumer reads PodNameToService of the bundle it holds.  before and
\* after: the map of that bundle before and after the refresh that is writing
\* into it, if one is.
ReaderRead ==
    /\ reader.holds
    /\ LET m == ReaderBundle.PodNameToService
           refreshing == /\ refresh.pc = "writing" /\ refresh.found
                         /\ reader.attached /\ refresh.nodeName = reader.nodeName
       IN  reader' = [reader EXCEPT !.read = TRUE, !.seen = m,
                         !.before = IF refreshing THEN refresh.before ELSE m,
                         !.after = IF refreshing THEN refresh.target ELSE m]
    /\ UNCHANGED <<now, cache, lastSet, poll, cmd, refresh>>
    /\ UNCHANGED tokenVars
    /\ UNCHANGED connVars

\* time passes for the refresh and the reader: the lifetime of an entry
ReaderClock ==
    /\ now + metadataMapExpire <= MaxReaderNow
    /\ now' = now + metadataMapExpire
    /\ UNCHANGED <<cache, lastSet, poll, cmd, refresh, reader>>
    /\ UNCHANGED tokenVars
    /\ UNCHANGED connVars

\* the metadata mapper is not in use
InitIdleMapper ==
    /\ cache = [k \in CacheKeys |-> NoEntry]
    /\ lastSet = [n \in NodeNames |-> NotSet]
    /\ poll = NoPoll
    /\ cmd = NoCmd
    /\ refresh = NoRefresh
    /\ reader = NoReader

----------------------------------------------------------------------------
(* The ConfigMap as the replicas may find it: absent, without data, empty,  *)
(* or holding the "event" token in one of the shapes GetTokenFromConfigmap  *)
(* tells apart.                                                             *)

InitData ==
    { EmptyMap,
      [k \in {eventTokenKey("event")} |-> "v1"],
      [k \in {eventTokenTS("event")} |-> FormatRFC822(0)],
      [k \in {eventTokenKey("event"), eventTokenTS("event")} |->
          IF k = eventTokenKey("event") THEN "v1" ELSE "not a timestamp"],
      [k \in {eventTokenKey("event"), eventTokenTS("event")} |->
          IF k = eventTokenKey("event") THEN "v1" ELSE FormatRFC822(0)] }

InitConfigMaps ==
    { [exists |-> FALSE, nilData |-> FALSE, Data |-> EmptyMap, ResourceVersion |-> 0],
      [exists |-> TRUE, nilData |-> TRUE, Data |-> EmptyMap, ResourceVersion |-> 1] }
    \cup { [exists |-> TRUE, nilData |-> FALSE, Data |-> d, ResourceVersion |-> 1] :
             d \in InitData }

NoWrite == [written |-> FALSE, by |-> "", value |-> "", ts |-> ""]

\* the connector is not in use
InitIdleConn ==
    /\ useMetadataMapper = FALSE
    /\ globalAPIClient = NilAPIClient
    /\ nAlloc = 0 /\ nConnect = 0 /\ nConnectOK = 0 /\ nProbe = 0
    /\ handedOut = {} /\ probePassed = {}
    /\ lastCall = NoCall
    /\ nGetClient = 0
    /\ goroutine = [g \in Goroutines |-> NotCalling]

\* the token store is not in use
InitIdleToken ==
    /\ cm = [exists |-> FALSE, nilData |-> FALSE, Data |-> EmptyMap, ResourceVersion |-> 0]
    /\ upd = [r \in Replicas |-> IdleCall]
    /\ calls = 0
    /\ getRes = NoGet
    /\ lastWrite = [t \in Tokens |-> NoWrite]

InitToken ==
    /\ now = 0
    /\ cm \in InitConfigMaps
    /\ upd = [r \in Replicas |-> IdleCall]
    /\ calls = 0
    /\ getRes = NoGet
    /\ lastWrite = [t \in Tokens |-> NoWrite]
    /\ InitIdleConn
    /\ InitIdleMapper

\* Replicas update the token concurrently.
NextToken ==
    \/ \E r \in Replicas, t \in Tokens, v \in Values : UpdCall(r, t, v)
    \/ \E r \in Replicas, reached \in BOOLEAN : UpdGet(r, reached)
    \/ \E r \in Replicas, reached \in BOOLEAN : UpdUpdate(r, reached)
    \/ \E d \in TickSteps : Tick(d)

SpecToken == InitToken /\ [][NextToken]_vars

\* One replica writes and reads the token, one call after the other.
NextGetToken ==
    \/ \E t \in Tokens, a \in MaxAges, reached \in BOOLEAN : GetToken(t, a, reached)
    \/ \E t \in Tokens, v \in Values : UpdCall("r1", t, v)
    \/ \E reached \in BOOLEAN : UpdGet("r1", reached)
    \/ \E reached \in BOOLEAN : UpdUpdate("r1", reached)
    \/ \E d \in TickSteps : Tick(d)

SpecGetToken == InitToken /\ [][NextGetToken]_vars

\* GetAPIClient is called again and again, one call after the other.
InitConn ==
    /\ now = 0
    /\ useMetadataMapper \in BOOLEAN
    /\ globalAPIClient = NilAPIClient
    /\ nAlloc = 0 /\ nConnect = 0 /\ nConnectOK = 0 /\ nProbe = 0
    /\ handedOut = {} /\ probePassed = {}
    /\ lastCall = NoCall
    /\ nGetClient = 0
    /\ goroutine = [g \in Goroutines |-> NotCalling]
    /\ InitIdleToken
    /\ InitIdleMapper

NextConn ==
    \/ \E clientOK \in BOOLEAN, versionEmpty \in BOOLEAN, failing \in ProbeFailures :
          GetAPIClient(clientOK, versionEmpty, failing)
    \/ ConnTick

SpecConn == InitConn /\ [][NextConn]_vars

\* Two goroutines make the first GetAPIClient calls of the process at the same
\* time; the steps of the two calls interleave.
NextConnRace ==
    \/ \E g \in Goroutines : RaceCheckNil(g)
    \/ \E g \in Goroutines : RaceSetup(g)
    \/ \E g \in Goroutines, clientOK \in BOOLEAN, versionEmpty \in BOOLEAN,
          failing \in ProbeFailures : RaceTrigger(g, clientOK, versionEmpty, failing)

SpecConnRace == InitConn /\ [][NextConnRace]_vars

InitMapper ==
    /\ now = 0
    /\ InitIdleMapper
    /\ InitIdleConn
    /\ InitIdleToken

\* The poll goroutine runs its cycles while time passes and the commands read
\* the cache.
NextMapper ==
    \/ \E d \in MapTickSteps : MapTick(d)
    \/ \E l \in NodeLists : PollNodes(l)
    \/ \E l \in EndpointsLists : PollEndpoints(l)
    \/ \E l \in PodLists, joinFails \in JoinFailures : PollPods(l, joinFails)

SpecMapper == InitMapper /\ [][NextMapper]_vars

\* The poll loop with a ticker that fires every metadataPollIntl seconds
\* wherever the running cycle is.
NextTicker ==
    \/ TickerFires
    \/ \E l \in NodeLists : PollNodes(l)
    \/ \E l \in EndpointsLists : PollEndpoints(l)
    \/ \E l \in PodLists, joinFails \in JoinFailures : PollPods(l, joinFails)

SpecTicker == InitMapper /\ [][NextTicker]_vars

\* Node agents compute the mapping of their own node, one call after the other.
NextNodeMapper ==
    \/ \E d \in MapTickSteps : MapClock(d)
    \/ \E n \in AgentNodes, podList \in SuppliedPodLists, l \in AgentEndpointsLists,
          joinFails \in JoinFailures : MapNode(n, podList, l, joinFails)

SpecNodeMapper == InitMapper /\ [][NextNodeMapper]_vars

\* processKubeServices refreshes the bundles of the nodes while a consumer
\* gets and reads one.
NextReader ==
    \/ \E n \in AgentNodes, podList \in RefreshPodLists, l \in RefreshEndpointsLists,
          fails \in BOOLEAN : RefreshBegin(n, podList, l, fails)
    \/ \E p \in PodNames : RefreshWrite(p)
    \/ RefreshSet
    \/ \E n \in AgentNodes : ReaderGet(n)
    \/ ReaderRead
    \/ ReaderClock

SpecReader == InitMapper /\ [][NextReader]_vars

\* The same, with the commands that read the cache.
NextMapperCmd ==
    \/ NextMapper
    \/ \E l \in NodeLists : CmdAllNodes(NoErr, l)
    \/ CmdAllNodes(ErrGetClient, ListNilItems)
    \/ \E n \in NodeNames : CmdOnNode(n)

SpecMapperCmd == InitMapper /\ [][NextMapperCmd]_vars

----------------------------------------------------------------------------
(* Properties of the token store *)

\* the token field of the call getRes describes is stored
HasKey(token) == eventTokenKey(token) \in DOMAIN cm.Data
HasTS(token) == eventTokenTS(token) \in DOMAIN cm.Data

\* the GetTokenFromConfigmap call that just returned read the object
GetReturned == getRes.called /\ getRes.getErr = NoErr

StoredAge(token) == now - ParseRFC822(cm.Data[eventTokenTS(token)])

C2_NoTimestampIsOutdated ==
    (GetReturned /\ HasKey(getRes.token) /\ ~HasTS(getRes.token))
    => /\ getRes.value = cm.Data[eventTokenKey(getRes.token)]
       /\ getRes.found
       /\ getRes.err = ErrOutdated

C2_Witness ==
    /\ GetReturned /\ HasKey(getRes.token) /\ ~HasTS(getRes.token)
    /\ getRes.tokenTimeout = 60 /\ now = 0
    /\ getRes.found /\ getRes.err = ErrOutdated

\* C3: when the object is missing (the read fails) or has no <name>.tokenKey
\* field, GetTokenFromConfigmap returns ("", false, ErrNotFound), whatever the
\* timestamp field and maxAge are.
C3_MissingIsNotFound ==
    (getRes.called /\ (getRes.getErr # NoErr \/ ~HasKey(getRes.token)))
    => /\ getRes.value = ""
       /\ ~getRes.found
       /\ getRes.err = ErrNotFound

\* the object is there and holds the timestamp of a token without its value
C3_Witness ==
    /\ GetReturned /\ ~HasKey(getRes.token) /\ HasTS(getRes.token)
    /\ ~getRes.found /\ getRes.err = ErrNotFound

\* Token Record invariant: no token value is stored without its timestamp
TokenRecordInv ==
    \A t \in Tokens : HasKey(t) => HasTS(t)

\* C4: UpdateTokenInConfigmap writes both fields in one Update, so no step of
\* any interleaving of calls, successful or failed, takes an object that
\* satisfies the Token Record invariant to one that does not.
C4_TokenRecordInvariantKept == [][TokenRecordInv => TokenRecordInv']_vars

\* both tokens were written, by two replicas
C4_Witness ==
    /\ TokenRecordInv
    /\ \A t \in Tokens : lastWrite[t].written /\ HasKey(t)
    /\ lastWrite["event"].by # lastWrite["leader"].by

\* an UpdateTokenInConfigmap call of replica r has returned
Returned(r) == upd[r].pc = "idle" /\ upd[r].nGet > 0

\* C5: UpdateTokenInConfigmap propagates failures without retrying: a failed
\* read is returned and no Update is issued, a failed Update is returned, and
\* a call issues at most one Get and at most one Update.
C5_FailuresPropagateNoRetry ==
    \A r \in Replicas :
        /\ upd[r].nGet <= 1 /\ upd[r].nUpdate <= upd[r].nGet
        /\ upd[r].getErr # NoErr => upd[r].nUpdate = 0
        /\ Returned(r) =>
              /\ upd[r].getErr # NoErr => upd[r].err = upd[r].getErr
              /\ upd[r].getErr = NoErr =>
                    upd[r].nUpdate = 1 /\ upd[r].err = upd[r].updErr

\* one call returned the error of its read, another the error of its Update
C5_Witness ==
    \E r1, r2 \in Replicas :
        /\ Returned(r1) /\ upd[r1].getErr = ErrRemote /\ upd[r1].err = ErrRemote
        /\ upd[r1].nUpdate = 0
        /\ Returned(r2) /\ upd[r2].updErr = ErrRemote /\ upd[r2].err = ErrRemote
        /\ upd[r2].nUpdate = 1

\* the stored pair of every token written so far is the pair of the Update
\* applied last for it
LastAppliedWins ==
    \A t \in Tokens :
        lastWrite[t].written =>
            /\ HasKey(t) /\ cm.Data[eventTokenKey(t)] = lastWrite[t].value
            /\ HasTS(t) /\ cm.Data[eventTokenTS(t)] = lastWrite[t].ts

\* C6 as stated: concurrent calls on one token are not an error (no call
\* returns the conflict of the race) and the stored pair is the pair of the
\* Update applied last.
C6_RaceIsNoError ==
    /\ \A r1, r2 \in Replicas :
          (r1 # r2 /\ Returned(r1) /\ Returned(r2) /\ upd[r1].token = upd[r2].token)
          => upd[r1].err # ErrConflict
    /\ LastAppliedWins

\* C6 amended: the Update of a call whose object another writer changed since
\* its read is rejected and the call returns that error; a call whose Get and
\* Update both succeed returns nil; the stored pair of the token is the pair
\* of the Update applied last, never a mix.
C6_LastAppliedWins ==
    /\ LastAppliedWins
    /\ \A r \in Replicas :
          Returned(r) =>
             /\ upd[r].err = ErrConflict => upd[r].updErr = ErrConflict
             /\ (upd[r].getErr = NoErr /\ upd[r].updErr = NoErr) => upd[r].err = NoErr

\* two replicas wrote the same token concurrently: one was applied, the other
\* was rejected with the conflict
C6_Witness ==
    \E r1, r2 \in Replicas :
        /\ r1 # r2
        /\ Returned(r1) /\ upd[r1].err = ErrConflict
        /\ Returned(r2) /\ upd[r2].err = NoErr
        /\ upd[r1].token = upd[r2].token
        /\ upd[r1].tokenValue # upd[r2].tokenValue
        /\ lastWrite[upd[r2].token].by = r2
        /\ cm.Data[eventTokenKey(upd[r2].token)] = upd[r2].tokenValue

----------------------------------------------------------------------------
(* Properties of GetAPIClient and connect *)

\* C7: GetAPIClient hands out a handle only after a connect attempt in which
\* checkResourcesAuth was run and returned no error: the probe has passed for
\* every handle a caller holds.
C7_HandleOnlyAfterProbe == handedOut \subseteq probePassed

\* C8: a connect attempt whose version read comes back empty does not run the
\* Authorization Probe and does not put the connector in the succeeded state.
C8_EmptyVersionIsNotReady ==
    (lastCall.called /\ lastCall.attempted /\ lastCall.version = "empty")
    => /\ ~lastCall.probeRan
       /\ globalAPIClient.initRetry.status # "OK"

\* C9: while every connect attempt fails, the connector makes RetryCount (10)
\* attempts and no more, it is exhausted exactly when the tenth has failed,
\* every call returns a nil handle with an error, and a call that makes no
\* attempt returns the last error.
C9_TenAttemptsThenLastError ==
    nConnectOK = 0 =>
        /\ nConnect <= RetryCount
        /\ globalAPIClient.initRetry.status = "PermaFail" <=> nConnect = RetryCount
        /\ lastCall.called => lastCall.handle = 0 /\ lastCall.err # NoErr
        /\ (lastCall.called /\ ~lastCall.attempted) =>
              lastCall.err = globalAPIClient.initRetry.lastTryError

\* ten attempts failed and a later call returned the last error without trying
C9_Witness ==
    /\ nConnectOK = 0 /\ nConnect = RetryCount
    /\ globalAPIClient.initRetry.status = "PermaFail"
    /\ lastCall.called /\ ~lastCall.attempted
    /\ lastCall.handle = 0 /\ lastCall.err # NoErr

\* C10: once a connect attempt has succeeded, every later GetAPIClient call
\* returns the same handle with no error, and no connect attempt, probe or
\* APIClient creation happens any more.
C10_SingletonAfterSuccess ==
    [][nConnectOK > 0 =>
          /\ nConnect' = nConnect /\ nProbe' = nProbe /\ nAlloc' = nAlloc
          /\ lastCall'.err = NoErr /\ lastCall'.handle = lastCall.handle
          /\ handedOut' = handedOut]_vars

\* an attempt succeeded after a failed one, and a later call got the handle
C10_Witness ==
    /\ nConnectOK = 1 /\ nConnect >= 2
    /\ lastCall.called /\ ~lastCall.attempted
    /\ lastCall.err = NoErr /\ lastCall.handle = globalAPIClient.id
    /\ handedOut = {globalAPIClient.id}

----------------------------------------------------------------------------
\* C11: under any interleaving of concurrent first callers of GetAPIClient the
\* initialisation happens at most once: one APIClient with one retrier is
\* created, the underlying client is built at most once, and all callers that
\* succeed receive the same handle.
C11_InitialisedOnce ==
    /\ nAlloc <= 1
    /\ nGetClient <= 1
    /\ \A g, h \in Goroutines :
          (/\ goroutine[g].pc = "done" /\ goroutine[g].err = NoErr
           /\ goroutine[h].pc = "done" /\ goroutine[h].err = NoErr)
          => goroutine[g].handle = goroutine[h].handle

----------------------------------------------------------------------------
\* the errors checkResourcesAuth can return
ProbeErrors ==
    { checkResourcesAuth(f, u) : f \in ProbeFailures, u \in BOOLEAN } \ {NoErr}

\* the last connect attempt of the shared instance failed in checkResourcesAuth
ProbeHasFailed ==
    /\ ~globalAPIClient.isNil
    /\ globalAPIClient.initRetry.lastTryError \in ProbeErrors

\* C12: a permission failure is fatal and not retried: when the probe fails
\* inside a connect attempt, the aggregated error is returned to the caller by
\* that same call, and no later GetAPIClient call runs another connect attempt
\* or probe.
C12_ProbeFailureNotRetried ==
    [][ /\ (lastCall'.probeRan /\ lastCall'.err # NoErr)
            => (lastCall'.err \in ProbeErrors /\ lastCall'.handle = 0)
        /\ ProbeHasFailed => (nConnect' = nConnect /\ nProbe' = nProbe) ]_vars

----------------------------------------------------------------------------
\* the elements of a sequence
Range(seq) == { seq[i] : i \in 1..Len(seq) }

\* C13: checkResourcesAuth never short-circuits: it always runs the Events probe
\* and, exactly when use_metadata_mapper is enabled, also the Service, Pod and
\* Node probes, whatever failed before; it returns nil iff no executed probe
\* failed, and otherwise one aggregate error whose comma-joined message has one
\* entry for each executed probe that failed and none for the others.
C13_ProbeRunsAllAndAggregates ==
    lastCall.probeRan =>
        LET run == lastCall.probe
            failed == Range(run.executed) \cap run.failing
        IN  /\ run.executed = IF useMetadataMapper THEN Probes ELSE <<"event">>
            /\ lastCall.err = NoErr <=> failed = {}
            /\ Len(run.errorMessages) = Cardinality(failed)
            /\ Range(run.errorMessages) = { ProbeMessage(p) : p \in failed }
            /\ failed # {} =>
                  lastCall.err = "check resources failed: " \o Join(run.errorMessages)

\* the mapper is enabled, the Events and Node probes fail and the two between
\* them do not: all four ran and the error names the two
C13_Witness ==
    /\ lastCall.probeRan
    /\ useMetadataMapper
    /\ lastCall.probe.failing = {"event", "node"}
    /\ lastCall.err = "check resources failed: event collection: forbidden, "
                          \o "node collection: forbidden"

----------------------------------------------------------------------------
(* The metadata mapper *)

CacheKey(n) == BuildAgentKey(metadataMapperCachePrefix, n)

\* the nodes of the list the cycle fetched
Listed == Range(poll.nodeList.Items)

\* the cycle of the poll goroutine has just run processKubeServices
JoinRan ==
    /\ poll.pc = "wait"
    /\ Len(poll.fetched) = 4

FiveMinutes == 5 * SecondsPerMinute

\* C14: partial-failure isolation in processKubeServices: when mapServices fails
\* for one node and succeeds for the others, in any order of the node list,
\* the entries of the others are written with a renewed TTL, nothing is set
\* for the failed node, and its prior entry stays as it was, visible until its
\* own earlier TTL lapses.
C14_JoinFailureSkipsOnlyThatNode ==
    [][ (poll.pc = "pods" /\ JoinRan') =>
          \A n \in Listed :
             IF n \in poll'.failed
             THEN /\ cache'[CacheKey(n)] = cache[CacheKey(n)]
                  /\ lastSet'[n] = lastSet[n]
                  /\ \A t \in now..(now + FiveMinutes) :
                        getMetadataMapBundle(cache', n, t) = getMetadataMapBundle(cache, n, t)
             ELSE /\ cache'[CacheKey(n)].set
                  /\ cache'[CacheKey(n)].expiresAt = now + FiveMinutes
                  /\ lastSet'[n].written /\ lastSet'[n].at = now ]_vars

\* mapServices has failed for n2 and not for n1 and n3: the entries of n1 and
\* n3 are renewed, the entry of n2 is an earlier one that is still visible
C14_Witness ==
    /\ JoinRan
    /\ Listed = NodeNames
    /\ poll.failed = {"n2"}
    /\ cache[CacheKey("n1")].expiresAt = now + FiveMinutes
    /\ cache[CacheKey("n3")].expiresAt = now + FiveMinutes
    /\ cache[CacheKey("n2")].set
    /\ now < cache[CacheKey("n2")].expiresAt
    /\ cache[CacheKey("n2")].expiresAt < now + FiveMinutes
    /\ getMetadataMapBundle(cache, "n2", now).err = NoErr

\* C15: the bundle a successful join wrote for a node is what
\* getMetadataMapBundle and GetMetadataMapBundleOnNode return at every moment
\* before 5 minutes have passed since the last successful write for that
\* node, each such write restarting the 5 minutes; once 5 minutes have
\* passed without one, the key is reported as not found.
C15_VisibleForFiveMinutesAfterLastWrite ==
    \A n \in NodeNames :
        LET got == getMetadataMapBundle(cache, n, now)
            onNode == GetMetadataMapBundleOnNode(cache, now, n)
        IN  IF lastSet[n].written /\ now - lastSet[n].at < FiveMinutes
            THEN /\ got.err = NoErr
                 /\ got.bundle = lastSet[n].bundle
                 /\ onNode.err = NoErr
                 /\ onNode.stats.Nodes[n] = lastSet[n].bundle
            ELSE /\ got.err = "the key KubernetesMetadataMapping:" \o n
                                 \o " was not found in the cache"
                 /\ got.bundle.isNil
                 /\ onNode.err = got.err

\* n1 was written 100 s after an earlier write and is still returned 200 s
\* later, when the earlier write is 5 minutes old; n2, for which the later
\* write failed, is not found any more
C15_Witness ==
    /\ lastSet["n1"].written /\ lastSet["n1"].at = now - 200
    /\ lastSet["n2"].written /\ lastSet["n2"].at = now - FiveMinutes
    /\ getMetadataMapBundle(cache, "n1", now).err = NoErr
    /\ DOMAIN getMetadataMapBundle(cache, "n1", now).bundle.PodNameToService # {}
    /\ getMetadataMapBundle(cache, "n2", now).err # NoErr

TargetedBy(i) ==
    { j \in 1..Len(poll.endpointList.Items) :
         poll.podList.Items[i].PodIP \in poll.endpointList.Items[j].Addresses }

\* the pods of the snapshot scheduled on n and targeted by some endpoint object
MappedPods(n) ==
    { i \in 1..Len(poll.podList.Items) :
         poll.podList.Items[i].NodeName = n /\ TargetedBy(i) # {} }

NodeListObtained == cmd.clientErr = NoErr /\ cmd.nodes.err = NoErr

\* the listed nodes for which no bundle was written in the last 5 minutes
WithoutBundle ==
    { n \in Range(cmd.nodes.Items) :
         ~(lastSet[n].written /\ now - lastSet[n].at < FiveMinutes) }

\* C18: GetMetadataMapBundleOnAllNodes does not abort when the bundle of a node
\* is unavailable: whenever the node list is obtained it returns no error,
\* with exactly one warning per listed node that has no cache entry under
\* 'Warnings' and the cached bundle of every listed node that has one under
\* 'Nodes'; only a failure to list the nodes makes it return an error.
C18_WarningsInsteadOfAbort ==
    cmd.called = "all" =>
        /\ cmd.err = NoErr <=> NodeListObtained
        /\ NodeListObtained =>
              /\ Len(cmd.stats.Warnings) = Cardinality(WithoutBundle)
              /\ Range(cmd.stats.Warnings) =
                    { "Node " \o n \o " could not be added to the service map bundle: "
                        \o "the key KubernetesMetadataMapping:" \o n
                        \o " was not found in the cache" : n \in WithoutBundle }
              /\ \A n \in Range(cmd.nodes.Items) \ WithoutBundle :
                    /\ n \in DOMAIN cmd.stats.Nodes
                    /\ cmd.stats.Nodes[n] = lastSet[n].bundle

\* three nodes are listed, the entry of n2 has expired and n1 has a bundle
\* that maps a pod: one warning, for n2, and the bundle of n1 under 'Nodes'
C18_Witness ==
    /\ cmd.called = "all"
    /\ NodeListObtained
    /\ Range(cmd.nodes.Items) = NodeNames
    /\ WithoutBundle = {"n2"}
    /\ lastSet["n2"].written
    /\ cmd.err = NoErr
    /\ Len(cmd.stats.Warnings) = 1
    /\ DOMAIN cmd.stats.Nodes["n1"].PodNameToService # {}

\* the calls ClusterMetadataMapping makes, in the order of lines 193-223
CycleOrder == <<"nodes", "endpoints", "pods", "join">>

\* a List call of the cycle failed, or returned a list without items
SomeFetchFailedOrEmpty(p) ==
    \E i \in 1..Len(p.fetched) : p.fetched[i].kind \in {"err", "nil", "empty"}

\* C19: a poll cycle that does not reach the join leaves the cache unchanged: if
\* the fetch of nodes, endpoints or pods fails (ClusterMetadataMapping returns
\* that error) or returns an empty list (it returns nil), no cache entry is
\* written, modified or has its TTL renewed in that cycle, and the loop waits
\* for the next tick to run a full cycle.
C19_NoJoinNoCacheChange ==
    [][ SomeFetchFailedOrEmpty(poll') =>
          /\ cache' = cache
          /\ lastSet' = lastSet
          /\ poll'.pc = "wait"
          /\ poll'.ret = IF poll'.fetched[Len(poll'.fetched)].kind = "err"
                         THEN ErrRemote ELSE NoErr ]_vars

\* C20: within one ClusterMetadataMapping cycle the remote calls happen in the
\* order nodes, endpoints, pods, and the join runs only after all three
\* returned a non-empty result: a later fetch is never issued before an earlier
\* one returned, nor after an earlier one failed or returned empty.
C20_FetchOrderAndEarlyReturn ==
    /\ Len(poll.fetched) <= Len(CycleOrder)
    /\ \A i \in 1..Len(poll.fetched) :
          /\ poll.fetched[i].call = CycleOrder[i]
          /\ i < Len(poll.fetched) => poll.fetched[i].kind = "items"

----------------------------------------------------------------------------
(* Properties of the token store under concurrent writers and over time *)

\* the stored fields of a token: a function on the subset of the two keys present
StoredFields(Data, token) ==
    [k \in {eventTokenKey(token), eventTokenTS(token)} \cap DOMAIN Data |-> Data[k]]

\* the step in which the Update of replica r is applied and the call returns nil
UpdateApplied(r) ==
    upd[r].pc = "update" /\ upd'[r].pc = "idle" /\ upd'[r].err = NoErr

\* C24: no update is lost across tokens.  The Update of a call that returns nil
\* stores the new value and timestamp of its token and leaves the stored fields
\* of the other token as they are, so when two replicas run concurrently for two
\* different tokens and both return nil the object holds both new pairs.
C24_NoLostUpdateAcrossTokens ==
    [][\A r \in Replicas :
          UpdateApplied(r) =>
             /\ cm'.Data[eventTokenKey(upd[r].token)] = upd[r].tokenValue
             /\ cm'.Data[eventTokenTS(upd[r].token)] = FormatRFC822(upd[r].at)
             /\ \A t \in Tokens \ {upd[r].token} :
                   StoredFields(cm'.Data, t) = StoredFields(cm.Data, t)]_vars

\* two replicas have returned nil for two different tokens and the object holds
\* the value and the timestamp each of them wrote
C24_Witness ==
    \E r1, r2 \in Replicas :
        /\ r1 # r2
        /\ Returned(r1) /\ upd[r1].nUpdate = 1 /\ upd[r1].err = NoErr
        /\ Returned(r2) /\ upd[r2].nUpdate = 1 /\ upd[r2].err = NoErr
        /\ upd[r1].token # upd[r2].token
        /\ \A r \in {r1, r2} :
              /\ HasKey(upd[r].token) /\ HasTS(upd[r].token)
              /\ cm.Data[eventTokenKey(upd[r].token)] = upd[r].tokenValue
              /\ cm.Data[eventTokenTS(upd[r].token)] = FormatRFC822(upd[r].at)
        /\ upd[r1].at # upd[r2].at

\* C26: a call whose Get returned the object goes on to the Update, also when
\* the object has no data map: it never stops between the read and the Update,
\* and once it has returned it has issued the Update and returned its error.
C26_ReadAlwaysReachesUpdate ==
    \A r \in Replicas :
        (upd[r].nGet > 0 /\ upd[r].getErr = NoErr) =>
            /\ upd[r].pc \in {"update", "idle"}
            /\ upd[r].pc = "idle" =>
                  (upd[r].nUpdate = 1 /\ upd[r].err = upd[r].updErr)

\* the read that just returned follows a successful write of the same token by
\* replica r1, the only writer, with no write in between
ReadAfterWrite ==
    /\ GetReturned
    /\ Returned("r1") /\ upd["r1"].nUpdate = 1 /\ upd["r1"].err = NoErr
    /\ upd["r1"].token = getRes.token

\* seconds elapsed between the time.Now() of the write and that of the read
Elapsed == now - upd["r1"].at

\* C25: a token written at t and read at t + d, with no write in between, has
\* the age d: the read returns (value, true, nil) whenever d <= maxAge and
\* ErrOutdated only when d > maxAge.
C25_AgeIsElapsedSeconds ==
    ReadAfterWrite =>
        /\ getRes.found /\ getRes.value = upd["r1"].tokenValue
        /\ Elapsed <= getRes.tokenTimeout => getRes.err = NoErr
        /\ getRes.err = ErrOutdated => Elapsed > getRes.tokenTimeout

----------------------------------------------------------------------------
(* Properties of the poll loop of StartMetadataMapping *)

\* a cycle is in flight
CycleRunning == poll.pc # "wait"

\* C21: the loop started by one StartMetadataMapping call runs at most one
\* ClusterMetadataMapping cycle at a time.  Ticks that fire while a cycle runs
\* are dropped, at most one stays pending, none is queued and none starts a
\* second cycle or disturbs the running one; a cycle starts only by taking the
\* pending tick after the running cycle has returned.
C21_OneCycleTicksDropped ==
    [][/\ poll'.tick <= TickerBuffer
       /\ poll'.tick < poll.tick =>
             (~CycleRunning /\ poll'.tick = poll.tick - 1 /\ now' = now)
       /\ (now' > now /\ CycleRunning) =>
             /\ poll'.pc = poll.pc /\ poll'.fetched = poll.fetched
             /\ poll'.tick = TickerBuffer
             /\ cache' = cache]_vars

\* a cycle has overrun two tick intervals: two ticks fired while it was
\* listing the pods and only one waits in the channel
C21_Witness ==
    /\ poll.pc = "pods"
    /\ poll.overrun = 2
    /\ poll.tick = TickerBuffer
    /\ now = 3 * metadataPollIntl

----------------------------------------------------------------------------
(* Properties of NodeMetadataMapping *)

\* the step is a NodeMetadataMapping call
MappingCalled == cmd'.called = "mapping"

\* C23: NodeMetadataMapping restricts the join to the node it is given.  It
\* leaves the cache entry of every other node, value and expiry, as it is; when
\* the endpoint fetch fails it returns that error and writes nothing; when the
\* endpoint list or the supplied pod list is empty it returns nil and writes
\* nothing.
C23_NodeMappingOnlyItsNode ==
    [][MappingCalled =>
          /\ \A n \in NodeNames \ {cmd'.nodeName} :
                cache'[CacheKey(n)] = cache[CacheKey(n)]
          /\ ListKind(cmd'.endpointList) = "err" =>
                (cmd'.err = cmd'.endpointList.err /\ cache' = cache)
          /\ (\/ ListKind(cmd'.endpointList) \in {"nil", "empty"}
              \/ /\ ListKind(cmd'.endpointList) = "items"
                 /\ ListKind(cmd'.podList) \in {"nil", "empty"}) =>
                (cmd'.err = NoErr /\ cache' = cache)]_vars

----------------------------------------------------------------------------
(* Properties of a consumer reading a bundle during a refresh *)

\* C22: a consumer that obtained the bundle of a node through
\* getMetadataMapBundle and reads its PodNameToService while a poll cycle
\* refreshes that node sees the map as it was before the refresh or as it is
\* after it, never a partially updated one.
C22_NoTornRead ==
    reader.read => reader.seen \in {reader.before, reader.after}

====
